---- MODULE Spec2Model ----
(***************************************************************************)
(* Model of the son-emu DC network core: DCNetwork (dcemulator/net.py) and *)
(* the zerorpc endpoint DCNetworkApi (api/zerorpcapi_DCNetwork.py).        *)
(*                                                                         *)
(* The topology graph is a networkx MultiDiGraph, modelled as networkx     *)
(* stores it: adj[u][v] is the "keydict" of the parallel edges u -> v,     *)
(* a mapping from integer edge keys 0, 1, ... to attribute records.        *)
(* The main thread builds the topology; the API server thread serves       *)
(* chain requests (setChain), one loop iteration per step.                 *)
(***************************************************************************)
EXTENDS Integers, Sequences, FiniteSets, TLC

\* ------------------------------------------------------------ universe
\* Names of the nodes the topology script may create.
Dockers == {"vnf1", "vnf2"}
Switches == {"s1"}
DcLabels == {"dc1", "dc2"}

\* The data center of the topology scripts that also create a switch.
OneDc == {"dc1"}

\* A name no operation ever registers (requests may still use it).
Ghost == "ghost"

\* Bounds of the model.
MaxLinks == 3

\* addLink calls of the unserialized specification SpecConc
MaxConcLinks == 2
MaxRemoves == 1
MaxDcObjs == 3

\* "no value" markers
NoId == -1
None == "None"

\* A caller-supplied interface id of a link descriptor (params["id"]).
\* Ids are descriptor strings in the program; they are modelled as numbers
\* outside the range of the port numbers the substrate assigns.
CallerIds == {70}

VARIABLES
    dcs,         \* self.dcs: label -> Datacenter object [oid, switch]
    nextOid,     \* identity of the next Datacenter object constructed
    adj,         \* self.DCNetwork_graph: node -> (successor -> keydict)
    mnNodes,     \* the substrate's nameToNode: names of live node objects
    ports,       \* the substrate's node.ports: name -> ports allocated so far
    nextIP,      \* the substrate's address counter behind getNextIp()
    nlinks,      \* number of addLink calls so far (bounded by MaxLinks)
    nremoves,    \* number of removeDocker calls so far (bounded by MaxRemoves)
    linkPc,      \* addLink between its two add_edge calls, or "idle"
    rmPc,        \* removeDocker between its two statements: the label, or None
    mres,        \* the exception the last main-thread operation raised
    gone,        \* history: the compute names the substrate has torn down
    pc,          \* API thread: "idle", "walking", "done"
    req,         \* the request being served: [src, dst, cmd]
    path,        \* setChain's local: the shortest path
    current_hop, \* setChain's local
    iter,        \* setChain's loop counter i
    sent,        \* directives this request passed to dpctl, in order
    outcome,     \* terminal outcome of the request: [kind, node]
    flows        \* the switches' flow tables: {[sw, in_port, action]}

topo == <<dcs, nextOid, adj, mnNodes, ports, nextIP, nlinks, nremoves, linkPc, rmPc, mres, gone>>
chain == <<pc, req, path, current_hop, iter, sent, outcome>>
vars == <<dcs, nextOid, adj, mnNodes, ports, nextIP, nlinks, nremoves, linkPc, rmPc, mres, gone,
          pc, req, path, current_hop, iter, sent, outcome, flows>>

\* ------------------------------------------------------------ substrate
\* Datacenter.create() registers the gateway switch "<label>.s1".
GwName(label) == IF label = "dc1" THEN "dc1.s1" ELSE "dc2.s1"

Gateways == {GwName(l) : l \in DcLabels}
AllNames == Dockers \cup Switches \cup Gateways

\* isinstance(node, OVSSwitch) / isinstance(node, Docker): the class of the
\* substrate object registered under a name.
IsSwitch(n) == n \in Switches \cup Gateways
IsDocker(n) == n \in Dockers

\* Mininet numbers a node's ports from portBase: 1 on a switch, 0 otherwise.
PortBase(n) == IF IsSwitch(n) THEN 1 ELSE 0

\* The port the substrate assigns to the next interface of n,
\* given that n has k interfaces already.
NewPort(n, k) == PortBase(n) + k

\* ------------------------------------------------------------ graph
Nodes == DOMAIN adj

\* the empty mapping
Empty == [x \in {} |-> None]

\* f with key k bound to v (dict assignment f[k] = v)
Put(f, k, v) == [x \in (DOMAIN f) \cup {k} |-> IF x = k THEN v ELSE f[x]]

\* MultiDiGraph.add_node(n): idempotent
add_node(g, n) == IF n \in DOMAIN g THEN g ELSE Put(g, n, Empty)

\* the first unused integer key of a keydict: key = len(keydict), then
\* "while key in keydict: key += 1"
RECURSIVE FreeKey(_, _)
FreeKey(kd, k) == IF k \in DOMAIN kd THEN FreeKey(kd, k + 1) ELSE k

\* MultiDiGraph.add_edge(u, v, attr_dict=d): adds the end nodes when absent
\* and always a new parallel edge under a fresh integer key
add_edge(g, u, v, d) ==
    LET g1 == add_node(add_node(g, u), v)
        kd == IF v \in DOMAIN g1[u] THEN g1[u][v] ELSE Empty
        key == FreeKey(kd, Cardinality(DOMAIN kd))
    IN  [g1 EXCEPT ![u] = Put(g1[u], v, Put(kd, key, d))]

\* MultiDiGraph.remove_node(n): the node and every edge into or out of it
remove_node(g, n) ==
    [u \in (DOMAIN g) \ {n} |->
        [v \in (DOMAIN g[u]) \ {n} |-> g[u][v]]]

\* all directed edges of g with their keys and attributes, as records
EdgesOf(g) ==
    UNION {UNION {{[u |-> u, v |-> v, key |-> k, attr |-> g[u][v][k]] :
                      k \in DOMAIN g[u][v]} : v \in DOMAIN g[u]} : u \in DOMAIN g}

\* an attribute record of an edge (attr_dict)
Attr(spid, sp, dpid, dp) ==
    [src_port_id |-> spid, src_port |-> sp, dst_port_id |-> dpid, dst_port |-> dp]

\* ------------------------------------------------------------ shortest path
Range(p) == {p[j] : j \in 1..Len(p)}

\* the simple paths of g with k edges that start at s
RECURSIVE SimplePaths(_, _, _)
SimplePaths(g, s, k) ==
    IF k = 0 THEN {<<s>>}
    ELSE UNION {{Append(p, v) : v \in (DOMAIN g[p[Len(p)]]) \ Range(p)} :
                    p \in SimplePaths(g, s, k - 1)}

\* the minimum-hop paths from s to t, searching lengths k, k+1, ...
RECURSIVE MinHopPaths(_, _, _, _)
MinHopPaths(g, s, t, k) ==
    IF k >= Cardinality(DOMAIN g) THEN {}
    ELSE LET hit == {p \in SimplePaths(g, s, k) : p[k + 1] = t}
         IN  IF hit # {} THEN hit ELSE MinHopPaths(g, s, t, k + 1)

\* shortest_path answering [s, t] where it should raise NetworkXNoPath
shortest_path_never_raising(g, s, t) ==
    LET found(p) == [kind |-> "path", p |-> p]
    IN  IF s = t \/ s \notin DOMAIN g \/ t \notin DOMAIN g
        THEN {found(<<s>>)}
        ELSE LET ps == MinHopPaths(g, s, t, 1)
             IN  IF ps = {} THEN {found(<<s, t>>)} ELSE {found(p) : p \in ps}

\* shortest_path answering any simple path from s to t, not a shortest one
shortest_path_any_simple(g, s, t) ==
    LET found(p) == [kind |-> "path", p |-> p]
        raised(k) == [kind |-> k, p |-> <<>>]
    IN  IF s = t
        THEN IF s \in DOMAIN g THEN {found(<<s>>)}
             ELSE {found(<<s>>), raised("NodeNotFound")}
        ELSE IF s \notin DOMAIN g THEN {raised("NodeNotFound")}
        ELSE IF t \notin DOMAIN g THEN {raised("NodeNotFound"), raised("NoPath")}
        ELSE LET ps == UNION {{q \in SimplePaths(g, s, k) : q[k + 1] = t} :
                                 k \in 1..(Cardinality(DOMAIN g) - 1)}
             IN  IF ps = {} THEN {raised("NoPath")} ELSE {found(q) : q \in ps}

\* nx.shortest_path(G, s, t): every result the call can produce.  Which of
\* several minimum-hop paths is found depends on dict iteration order, and
\* what is raised for a name that is not a node depends on the networkx
\* release (NetworkXError / NodeNotFound, or NetworkXNoPath once one search
\* frontier runs empty; source = target is answered [source] without looking
\* at the graph by the 1.x releases).
shortest_path(g, s, t) ==
    LET found(p) == [kind |-> "path", p |-> p]
        raised(k) == [kind |-> k, p |-> <<>>]
    IN  IF s = t
        THEN IF s \in DOMAIN g THEN {found(<<s>>)}
             ELSE {found(<<s>>), raised("NodeNotFound")}
        ELSE IF s \notin DOMAIN g THEN {raised("NodeNotFound")}
        ELSE IF t \notin DOMAIN g THEN {raised("NodeNotFound"), raised("NoPath")}
        ELSE LET ps == MinHopPaths(g, s, t, 1)
             IN  IF ps = {} THEN {raised("NoPath")} ELSE {found(p) : p \in ps}

\* ------------------------------------------------------------ dict lookups
\* A subscript key is an integer or a string.
IntKey(n) == [kind |-> "int", n |-> n, s |-> ""]
StrKey(s) == [kind |-> "str", n |-> 0, s |-> s]

\* KeyError
KeyErr == [ok |-> FALSE, val |-> NoId]

\* keydict[key]: the keys of a keydict are the integer edge keys
KeydictItem(kd, key) ==
    IF key.kind = "int" /\ key.n \in DOMAIN kd
    THEN [ok |-> TRUE, val |-> kd[key.n]]
    ELSE KeyErr

\* self.DCNetwork_graph[u][v][name], as setChain reads a port of "the" edge
\* u -> v.  On a MultiDiGraph G[u][v] is the keydict of the parallel edges,
\* so the last subscript looks the attribute name up among the edge keys.
EdgeField(g, u, v, name) ==
    IF u \notin DOMAIN g THEN KeyErr
    ELSE IF v \notin DOMAIN g[u] THEN KeyErr
    ELSE KeydictItem(g[u][v], StrKey(name))

\* ------------------------------------------------------------ initial state
NoReq == [src |-> None, dst |-> None, cmd |-> None]
NoOutcome == [kind |-> None, node |-> None]
LinkIdle == [st |-> "idle"]
Raised(op, arg, err) == [op |-> op, arg |-> arg, err |-> err]
NoResult == Raised(None, None, None)

Init ==
    /\ dcs = Empty
    /\ nextOid = 0
    /\ adj = Empty
    /\ mnNodes = {}
    /\ ports = [n \in AllNames |-> 0]
    /\ nextIP = 1
    /\ nlinks = 0
    /\ nremoves = 0
    /\ linkPc = LinkIdle
    /\ rmPc = None
    /\ mres = NoResult
    /\ gone = {}
    /\ pc = "idle"
    /\ req = NoReq
    /\ path = <<>>
    /\ current_hop = None
    /\ iter = 0
    /\ sent = <<>>
    /\ outcome = NoOutcome
    /\ flows = {}

\* ------------------------------------------------------------ topology
\* addDatacenter without the test for a label that exists
addDatacenterUnchecked(label) ==
    /\ nextOid < MaxDcObjs
    /\ dcs' = Put(dcs, label, [oid |-> nextOid, switch |-> GwName(label)])
    /\ nextOid' = nextOid + 1
    /\ adj' = add_node(adj, GwName(label))
    /\ mnNodes' = mnNodes \cup {GwName(label)}
    /\ ports' = [ports EXCEPT ![GwName(label)] = 0]
    /\ mres' = NoResult

\* DCNetwork.addDatacenter(label)
addDatacenter(label) ==
    IF label \in DOMAIN dcs
    THEN /\ mres' = Raised("addDatacenter", label, "DuplicateLabel")
         /\ UNCHANGED <<dcs, nextOid, adj, mnNodes, ports>>
    ELSE /\ nextOid < MaxDcObjs
         /\ dcs' = Put(dcs, label, [oid |-> nextOid, switch |-> GwName(label)])
         /\ nextOid' = nextOid + 1
         \* dc.create(): the gateway switch, through addSwitch
         /\ adj' = add_node(adj, GwName(label))
         /\ mnNodes' = mnNodes \cup {GwName(label)}
         /\ ports' = [ports EXCEPT ![GwName(label)] = 0]
         /\ mres' = NoResult

\* DCNetwork.addSwitch(name, add_to_graph): the graph node first, unless
\* add_to_graph is false, then the substrate, whose switch creation may
\* fail (created = FALSE)
addSwitch(name, add_to_graph, created) ==
    /\ name \notin mnNodes
    /\ adj' = IF add_to_graph THEN add_node(adj, name) ELSE adj
    /\ mnNodes' = IF created THEN mnNodes \cup {name} ELSE mnNodes
    /\ ports' = [ports EXCEPT ![name] = 0]
    /\ mres' = IF created THEN NoResult
               ELSE Raised("addSwitch", name, "SubstrateError")

\* addDocker asking the substrate first and adding the graph node second,
\* so not at all when the substrate raises
addDockerSubstrateFirst(label, created) ==
    /\ label \notin mnNodes
    /\ adj' = IF created THEN add_node(adj, label) ELSE adj
    /\ mnNodes' = IF created THEN mnNodes \cup {label} ELSE mnNodes
    /\ ports' = [ports EXCEPT ![label] = 0]
    /\ mres' = IF created THEN NoResult
               ELSE Raised("addDocker", label, "SubstrateError")
    /\ gone' = gone \ {label}

\* DCNetwork.addDocker(label): the graph node first, then the substrate,
\* whose container creation may fail (created = FALSE)
addDocker(label, created) ==
    /\ label \notin mnNodes
    /\ adj' = add_node(adj, label)
    /\ mnNodes' = IF created THEN mnNodes \cup {label} ELSE mnNodes
    /\ ports' = [ports EXCEPT ![label] = 0]
    /\ mres' = IF created THEN NoResult
               ELSE Raised("addDocker", label, "SubstrateError")
    /\ gone' = gone \ {label}

\* removeDocker asking the substrate first and updating the graph second
removeDockerSubstrateFirst(label, whole) ==
    /\ nremoves < MaxRemoves
    /\ nremoves' = nremoves + 1
    /\ IF label \notin mnNodes
       THEN /\ mres' = Raised("removeDocker", label, "SubstrateError")
            /\ UNCHANGED <<adj, mnNodes, ports, rmPc, gone>>
       ELSE /\ mnNodes' = mnNodes \ {label}
            /\ gone' = gone \cup {label}
            /\ ports' = [ports EXCEPT ![label] = 0]
            /\ mres' = NoResult
            /\ adj' = IF whole THEN remove_node(adj, label) ELSE adj
            /\ rmPc' = IF whole THEN None ELSE label

\* removeDocker taking a name that is not a node for removed
removeDockerSilent(label, whole) ==
    /\ nremoves < MaxRemoves
    /\ nremoves' = nremoves + 1
    /\ adj' = remove_node(adj, label)
    /\ mnNodes' = mnNodes \ {label}
    /\ gone' = gone \cup ({label} \cap mnNodes)
    /\ ports' = [ports EXCEPT ![label] = 0]
    /\ mres' = NoResult
    /\ UNCHANGED rmPc

\* DCNetwork.removeDocker(label): remove_node, which raises for a name that
\* is not a node of the graph, then the substrate's removeDocker, which
\* raises for a name it does not know.  whole = FALSE stops between the two
\* statements.
removeDocker(label, whole) ==
    /\ nremoves < MaxRemoves
    /\ nremoves' = nremoves + 1
    /\ IF label \notin DOMAIN adj
       THEN /\ mres' = Raised("removeDocker", label, "NetworkXError")
            /\ UNCHANGED <<adj, mnNodes, ports, rmPc, gone>>
       ELSE /\ adj' = remove_node(adj, label)
            /\ IF whole
               THEN /\ mnNodes' = mnNodes \ {label}
                    /\ gone' = gone \cup ({label} \cap mnNodes)
                    /\ mres' = IF label \in mnNodes THEN NoResult
                               ELSE Raised("removeDocker", label, "SubstrateError")
                    /\ ports' = [ports EXCEPT ![label] = 0]
                    /\ UNCHANGED rmPc
               ELSE /\ rmPc' = label
                    /\ UNCHANGED <<mnNodes, ports, mres, gone>>

\* the second statement of a removeDocker in progress:
\* Dockernet.removeDocker(label)
removeDockerSubstrate ==
    /\ rmPc # None
    /\ mnNodes' = mnNodes \ {rmPc}
    /\ gone' = gone \cup ({rmPc} \cap mnNodes)
    /\ mres' = IF rmPc \in mnNodes THEN NoResult
               ELSE Raised("removeDocker", rmPc, "SubstrateError")
    /\ ports' = [ports EXCEPT ![rmPc] = 0]
    /\ rmPc' = None
    /\ UNCHANGED <<dcs, nextOid, adj, nextIP, nlinks, nremoves, linkPc>>

\* ------------------------------------------------------------ addLink
\* The forms of an end point addLink accepts: a node object, a Datacenter
\* handle, or a string.
ObjEnd(n) == [kind |-> "obj", name |-> n]
DcEnd(l) == [kind |-> "dc", name |-> l]
StrEnd(x) == [kind |-> "str", name |-> x]

EndPoints ==
    {ObjEnd(n) : n \in mnNodes} \cup {DcEnd(l) : l \in DOMAIN dcs}
        \cup {StrEnd(x) : x \in DOMAIN dcs}

\* "ensure type of node": a string naming a registered data center and a
\* Datacenter handle become the data center's switch; anything else stays.
Resolve(e) ==
    IF e.kind = "str"
    THEN IF e.name \in DOMAIN dcs THEN ObjEnd(dcs[e.name].switch) ELSE e
    ELSE IF e.kind = "dc" THEN ObjEnd(dcs[e.name].switch)
    ELSE e

\* "try to give containers a default IP": getNextIp() is called for a Docker
\* object whose link parameters carry no "ip"
NeedsIp(r, ipGiven) == r.kind = "obj" /\ IsDocker(r.name) /\ ~ipGiven

\* the port id never taken from the descriptor
PortIdOfSubstrate(r, id, port) == port

\* "try to give container interfaces a default id": the id of the descriptor
\* for a Docker object that was given one, the substrate's port otherwise
PortId(r, id, port) ==
    IF IsDocker(r.name) /\ id # NoId THEN id ELSE port

\* the attr_dict of the edge node1 -> node2
FirstEdgeAttr(id1, p1, id2, p2) == Attr(id1, p1, id2, p2)

\* the second add_edge given the attributes of the first, unswapped
SecondEdgeAttrUnswapped(id1, p1, id2, p2) == Attr(id1, p1, id2, p2)

\* the attr_dict of the edge node2 -> node1
SecondEdgeAttr(id1, p1, id2, p2) == Attr(id2, p2, id1, p1)

\* DCNetwork.addLink(node1, node2, params1={id, ip}, params2={id, ip}).
\* bothEdges = FALSE stops between the two add_edge calls.
addLink(e1, e2, id1, id2, ip1, ip2, bothEdges) ==
    LET r1 == Resolve(e1)
        r2 == Resolve(e2)
        n1 == r1.name
        n2 == r2.name
        \* Dockernet.addLink: the substrate assigns one new port on each side
        p1 == NewPort(n1, ports[n1])
        p2 == NewPort(n2, ports[n2])
        node1_port_id == PortId(r1, id1, p1)
        node2_port_id == PortId(r2, id2, p2)
        fwd == FirstEdgeAttr(node1_port_id, p1, node2_port_id, p2)
        bwd == SecondEdgeAttr(node1_port_id, p1, node2_port_id, p2)
        g1 == add_edge(adj, n1, n2, fwd)
    IN  /\ nlinks < MaxLinks
        /\ n1 # n2
        /\ n1 \in mnNodes /\ n2 \in mnNodes
        /\ nlinks' = nlinks + 1
        /\ nextIP' = nextIP + (IF NeedsIp(r1, ip1) THEN 1 ELSE 0)
                            + (IF NeedsIp(r2, ip2) THEN 1 ELSE 0)
        /\ ports' = [ports EXCEPT ![n1] = @ + 1, ![n2] = @ + 1]
        /\ IF r1.kind = "str" \/ r2.kind = "str"
           THEN \* node.ports on a str: AttributeError after the link exists
                /\ mres' = Raised("addLink", n1, "AttributeError")
                /\ UNCHANGED <<adj, linkPc>>
           ELSE /\ mres' = NoResult
                /\ IF bothEdges
                   THEN /\ adj' = add_edge(g1, n2, n1, bwd)
                        /\ UNCHANGED linkPc
                   ELSE /\ adj' = g1
                        /\ linkPc' = [st |-> "mid", u |-> n2, v |-> n1, attr |-> bwd]
        /\ UNCHANGED <<dcs, nextOid, mnNodes, nremoves, rmPc, gone>>

\* the second add_edge with the node names of the first
addLinkSecondEdgeSameDirection ==
    /\ linkPc.st = "mid"
    /\ adj' = add_edge(adj, linkPc.v, linkPc.u, linkPc.attr)
    /\ linkPc' = LinkIdle
    /\ UNCHANGED <<dcs, nextOid, mnNodes, ports, nextIP, nlinks, nremoves, rmPc, mres, gone>>

\* the second add_edge of an addLink in progress
addLinkSecondEdge ==
    /\ linkPc.st = "mid"
    /\ adj' = add_edge(adj, linkPc.u, linkPc.v, linkPc.attr)
    /\ linkPc' = LinkIdle
    /\ UNCHANGED <<dcs, nextOid, mnNodes, ports, nextIP, nlinks, nremoves, rmPc, mres, gone>>

IdChoices == {NoId} \cup CallerIds

\* whether the link parameters of a side carry an "ip"
IpChoices == {FALSE}

\* ------------------------------------------------------------ setChain
\* the names a chain request may carry: a node of the graph, a compute node
\* that was or is being removed, or a name that was never registered
ReqNames == Nodes \cup gone \cup ({rmPc} \ {None}) \cup {Ghost}
Cmds == {"add-flow", "del-flows"}

\* path.index(x): the first position of x in the path (1-based here)
IndexOf(p, x) == CHOOSE j \in 1..Len(p) : p[j] = x /\ \A h \in 1..(j - 1) : p[h] # x

\* the ofcmd string: the match, and for add-flow the action
Directive(sw, cmd, inport, outport) ==
    [sw |-> sw, cmd |-> cmd, in_port |-> inport,
     action |-> IF cmd = "add-flow" THEN outport ELSE NoId]

\* what ovs-ofctl does to the flow tables when the command is applied:
\* add-flow replaces the flow with the same match, del-flows removes every
\* flow with the match
Applied(fl, d) ==
    LET rest == {f \in fl : ~(f.sw = d.sw /\ f.in_port = d.in_port)}
    IN  IF d.cmd = "add-flow"
        THEN rest \cup {[sw |-> d.sw, in_port |-> d.in_port, action |-> d.action]}
        ELSE rest

\* what the switch's command interface can do with a directive: apply it,
\* fail and report it in the text dpctl returns (which setChain drops), or
\* raise
DpctlResults == {"applied", "failed", "raised"}

\* the destination test comparing the node object with the name
ReachedDstNever(next_hop, dst) == FALSE

\* "if next_hop == vnf_dst_name"
ReachedDst(next_hop, dst) == next_hop = dst

\* the switch test left out: every hop is taken for a switch
NotASwitchNever(next_hop) == FALSE

\* "elif not isinstance( next_node, OVSSwitch )"
NotASwitch(next_hop) == ~IsSwitch(next_hop)

Finish(kind, node) ==
    /\ pc' = "done"
    /\ outcome' = [kind |-> kind, node |-> node]
    /\ UNCHANGED <<req, path, current_hop, iter, sent, flows>>

\* network_action_start / network_action_stop up to the for loop of
\* setChain: the shortest path, current_hop = vnf_src_name
setChainBegin(src, dst, cmd) ==
    /\ pc = "idle"
    /\ req' = [src |-> src, dst |-> dst, cmd |-> cmd]
    /\ \E r \in shortest_path(adj, src, dst) :
          IF r.kind = "path"
          THEN /\ pc' = "walking"
               /\ path' = r.p
               /\ current_hop' = src
               /\ iter' = 0
               /\ UNCHANGED <<sent, outcome, flows>>
          ELSE /\ pc' = "done"
               /\ outcome' = [kind |-> r.kind, node |-> None]
               /\ UNCHANGED <<path, current_hop, iter, sent, flows>>

\* one iteration of "for i in range(0, len(path))", or the return after it
setChainStep ==
    /\ pc = "walking"
    /\ IF iter >= Len(path)
       THEN Finish("NotReached", req.dst)
       ELSE
        LET at == IndexOf(path, current_hop) IN
        IF at + 1 > Len(path)
        THEN Finish("IndexError", None)
        ELSE
        LET next_hop == path[at + 1] IN
        IF next_hop \notin mnNodes
        THEN Finish("KeyError", next_hop)           \* getNodeByName
        ELSE IF ReachedDst(next_hop, req.dst)
        THEN Finish("Completed", None)
        ELSE IF NotASwitch(next_hop)
        THEN Finish("Rejected", next_hop)
        ELSE
        LET switch_inport == EdgeField(adj, current_hop, next_hop, "dst_port") IN
        IF ~switch_inport.ok
        THEN Finish("KeyError", None)
        ELSE IF at + 2 > Len(path)
        THEN Finish("IndexError", None)
        ELSE
        LET next2_hop == path[at + 2]
            switch_outport == EdgeField(adj, next_hop, next2_hop, "src_port")
        IN
        IF ~switch_outport.ok
        THEN Finish("KeyError", None)
        ELSE
        LET d == Directive(next_hop, req.cmd, switch_inport.val, switch_outport.val)
        IN  \E res \in DpctlResults :
              /\ sent' = Append(sent, d)
              /\ flows' = IF res = "applied" THEN Applied(flows, d) ELSE flows
              /\ IF res = "raised"
                 THEN /\ pc' = "done"
                      /\ outcome' = [kind |-> "DeviceError", node |-> next_hop]
                      /\ UNCHANGED <<current_hop, iter>>
                 ELSE /\ current_hop' = next_hop
                      /\ iter' = iter + 1
                      /\ UNCHANGED <<pc, outcome>>
              /\ UNCHANGED <<req, path>>

\* the RPC returns str(c) or ex.message; the request's locals are dropped
rpcReturn ==
    /\ pc = "done"
    /\ pc' = "idle"
    /\ req' = NoReq
    /\ path' = <<>>
    /\ current_hop' = None
    /\ iter' = 0
    /\ sent' = <<>>
    /\ outcome' = NoOutcome
    /\ UNCHANGED flows

\* ------------------------------------------------------------ operations
\* The topology script (main thread): one statement after the other.
ScriptReady == linkPc.st = "idle" /\ rmPc = None /\ mres = NoResult

DatacenterOp(labels) ==
    /\ \E label \in labels : addDatacenter(label)
    /\ UNCHANGED <<nextIP, nlinks, nremoves, linkPc, rmPc, gone, chain, flows>>

SwitchOp ==
    /\ \E name \in Switches, add_to_graph \in BOOLEAN, created \in BOOLEAN :
          addSwitch(name, add_to_graph, created)
    /\ UNCHANGED <<dcs, nextOid, nextIP, nlinks, nremoves, linkPc, rmPc, gone, chain, flows>>

DockerOp ==
    /\ \E label \in Dockers, created \in BOOLEAN : addDocker(label, created)
    /\ UNCHANGED <<dcs, nextOid, nextIP, nlinks, nremoves, linkPc, rmPc, chain, flows>>

RemoveOp(whole) ==
    /\ \E label \in Dockers : removeDocker(label, whole)
    /\ UNCHANGED <<dcs, nextOid, nextIP, nlinks, linkPc, chain, flows>>

LinkOp(bothEdges) ==
    /\ \E e1 \in EndPoints, e2 \in EndPoints, id1 \in IdChoices, id2 \in IdChoices,
          ip1 \in IpChoices, ip2 \in IpChoices :
            addLink(e1, e2, id1, id2, ip1, ip2, bothEdges)
    /\ UNCHANGED <<chain, flows>>

\* the script goes on to its next statement (an exception was handled)
Continue ==
    /\ mres # NoResult
    /\ mres' = NoResult
    /\ UNCHANGED <<dcs, nextOid, adj, mnNodes, ports, nextIP, nlinks, nremoves,
                   linkPc, rmPc, gone, chain, flows>>

\* The API server thread: one request at a time.
StartOp ==
    /\ \E src \in ReqNames, dst \in ReqNames : setChainBegin(src, dst, "add-flow")
    /\ UNCHANGED topo

StopOp ==
    /\ \E src \in ReqNames, dst \in ReqNames : setChainBegin(src, dst, "del-flows")
    /\ UNCHANGED topo

WalkStep == setChainStep /\ UNCHANGED topo

Return == rpcReturn /\ UNCHANGED topo

\* ------------------------------------------------------------ Spec
\* Requests serialized with the topology script by the caller: the script
\* changes the topology only while no request is being served, a request is
\* served only between two statements of the script, and addLink adds both
\* edges in one step.
Quiet == pc = "idle" /\ ScriptReady

AddDatacenter == Quiet /\ DatacenterOp(OneDc)
AddSwitch == Quiet /\ SwitchOp
AddDocker == Quiet /\ DockerOp
RemoveDocker == Quiet /\ RemoveOp(TRUE)
AddLink == Quiet /\ LinkOp(TRUE)
StartChain == ScriptReady /\ StartOp
StopChain == ScriptReady /\ StopOp

Next ==
    \/ AddDatacenter
    \/ AddSwitch
    \/ AddDocker
    \/ RemoveDocker
    \/ AddLink
    \/ Continue
    \/ StartChain
    \/ StopChain
    \/ WalkStep
    \/ Return

Spec == Init /\ [][Next]_vars

\* ------------------------------------------------------------ SpecConc
\* No serialization: the API server thread (threading.Thread in
\* ZeroRpcApiEndpointDCNetwork.start) runs while the topology script does,
\* and the two add_edge calls of addLink and the two statements of
\* removeDocker are separate steps.
ConcAddDatacenter == ScriptReady /\ DatacenterOp(OneDc)
ConcAddSwitch == ScriptReady /\ SwitchOp
ConcAddDocker == ScriptReady /\ DockerOp
ConcRemoveDockerGraph == ScriptReady /\ RemoveOp(FALSE)
ConcRemoveDockerSubstrate == removeDockerSubstrate /\ UNCHANGED <<chain, flows>>
ConcAddLinkFirstEdge == ScriptReady /\ nlinks < MaxConcLinks /\ LinkOp(FALSE)
ConcAddLinkSecondEdge == addLinkSecondEdge /\ UNCHANGED <<chain, flows>>
ConcStartChain == StartOp
ConcStopChain == StopOp

NextConc ==
    \/ ConcAddDatacenter
    \/ ConcAddSwitch
    \/ ConcAddDocker
    \/ ConcRemoveDockerGraph
    \/ ConcRemoveDockerSubstrate
    \/ ConcAddLinkFirstEdge
    \/ ConcAddLinkSecondEdge
    \/ Continue
    \/ ConcStartChain
    \/ ConcStopChain
    \/ WalkStep
    \/ Return

SpecConc == Init /\ [][NextConc]_vars

\* ------------------------------------------------------------ SpecTwoDc
\* The topology of test_sonata_dummy_gatekeeper.py: two data centers and two
\* compute nodes, no switch besides the gateways, the nodes linked to the
\* data centers and the data centers to each other; requests serialized
\* with the script as in Spec.
AddDatacenters == Quiet /\ DatacenterOp(DcLabels)

NextTwoDc ==
    \/ AddDatacenters
    \/ AddDocker
    \/ AddLink
    \/ Continue
    \/ StartChain
    \/ StopChain
    \/ WalkStep
    \/ Return

SpecTwoDc == Init /\ [][NextTwoDc]_vars

\* ------------------------------------------------------------ properties
\* the positions of the intermediate hops of a path
Inner(p) == 2..(Len(p) - 1)

\* the dst_port / src_port values recorded on the edges u -> v
DstPorts(u, v) ==
    IF u \in Nodes /\ v \in DOMAIN adj[u]
    THEN {adj[u][v][k].dst_port : k \in DOMAIN adj[u][v]} ELSE {}
SrcPorts(u, v) ==
    IF u \in Nodes /\ v \in DOMAIN adj[u]
    THEN {adj[u][v][k].src_port : k \in DOMAIN adj[u][v]} ELSE {}

\* a request with command cmd has ended over a path with at least one
\* intermediate hop, all of them switches
EndedOverSwitches(cmd) ==
    /\ pc = "done"
    /\ req.cmd = cmd
    /\ Len(path) >= 3
    /\ \A j \in Inner(path) : IsSwitch(path[j])

\* sent holds one directive cmd per intermediate hop of the path, in path
\* order, each matching the port that faces the previous hop
OnePerSwitch(cmd) ==
    /\ Len(sent) = Len(path) - 2
    /\ \A j \in 1..Len(sent) :
          /\ sent[j].sw = path[j + 1]
          /\ sent[j].cmd = cmd
          /\ sent[j].in_port \in DstPorts(path[j], path[j + 1])

\* C1: a start_chain whose shortest path is [src, s1, ..., sk, dst], k >= 1,
\* all s_i switches, issues exactly k add-flow directives, one to each s_i in
\* path order, matching the dst_port of the edge from the predecessor and
\* forwarding to the src_port of the edge to the successor, and returns the
\* success confirmation.
C1_InstallAtEverySwitch ==
    EndedOverSwitches("add-flow") =>
        /\ outcome.kind = "Completed"
        /\ OnePerSwitch("add-flow")
        /\ \A j \in 1..Len(sent) :
              sent[j].action \in SrcPorts(path[j + 1], path[j + 2])

\* C2: stop_chain walks as start_chain does: it issues a del-flows directive
\* to the same intermediate switches in the same order, each matching only
\* the in_port facing the previous hop and carrying no action.
C2_RemoveAtEverySwitch ==
    EndedOverSwitches("del-flows") =>
        /\ outcome.kind = "Completed"
        /\ OnePerSwitch("del-flows")
        /\ \A j \in 1..Len(sent) : sent[j].action = NoId

\* C3: a start_chain over a path whose intermediate node is not a switch
\* ends Rejected, naming that node, with no flow directive issued; and a
\* start_chain ends Rejected only so.
C3_NonSwitchHopRejected ==
    (pc = "done" /\ req.cmd = "add-flow") =>
        /\ (Len(path) >= 3 /\ path[2] \in Dockers) =>
              (outcome = [kind |-> "Rejected", node |-> path[2]] /\ sent = <<>>)
        /\ outcome.kind = "Rejected" =>
              /\ \E j \in Inner(path) : outcome.node = path[j]
              /\ outcome.node \in Dockers
              /\ sent = <<>>

\* a start_chain over [A, X, C] with X a compute node has been rejected
C3_Witness ==
    /\ pc = "done"
    /\ req.cmd = "add-flow"
    /\ Len(path) = 3
    /\ path[2] \in Dockers
    /\ outcome.kind = "Rejected"

\* the attributes of an edge as its reverse edge must carry them
Mirrored(a) == Attr(a.dst_port_id, a.dst_port, a.src_port_id, a.src_port)

\* every directed edge a -> b has a reverse edge b -> a with mirrored ports
Mirror ==
    \A e \in EdgesOf(adj) :
        \E f \in EdgesOf(adj) : f.u = e.v /\ f.v = e.u /\ f.attr = Mirrored(e.attr)

\* the edges of g from u to v
Between(g, u, v) == {e \in EdgesOf(g) : e.u = u /\ e.v = v}

\* a step is an addLink that completed: it added one edge in each direction
\* between one pair of nodes, and nothing else changed in the graph
LinkAddsTwo ==
    (nlinks' = nlinks + 1 /\ mres' = NoResult) =>
        \E a \in AllNames, b \in AllNames :
            /\ a # b
            /\ Cardinality(Between(adj', a, b)) = Cardinality(Between(adj, a, b)) + 1
            /\ Cardinality(Between(adj', b, a)) = Cardinality(Between(adj, b, a)) + 1
            /\ Cardinality(EdgesOf(adj')) = Cardinality(EdgesOf(adj)) + 2
            /\ EdgesOf(adj) \subseteq EdgesOf(adj')

\* C4: the mirror invariant.  After any sequence of completed addLink,
\* addSwitch, addDocker and removeDocker operations every directed edge has
\* a reverse edge with mirrored port metadata, and every completed addLink
\* has contributed exactly two directed edges, one in each direction.
C4_MirrorInvariant == []Mirror /\ [][LinkAddsTwo]_vars

\* links were added, a compute node was removed with the edges of its
\* links, and edges of another link remain
C4_Witness ==
    /\ nlinks >= 2
    /\ nremoves >= 1
    /\ mres = NoResult
    /\ EdgesOf(adj) # {}
    /\ Cardinality(EdgesOf(adj)) < 2 * nlinks
    /\ \E e \in EdgesOf(adj) : e.attr.src_port_id # e.attr.src_port

\* the nodes of g reachable from the nodes in S along directed edges
RECURSIVE ReachableFrom(_, _)
ReachableFrom(g, S) ==
    LET T == S \cup UNION {DOMAIN g[u] : u \in S}
    IN  IF T = S THEN S ELSE ReachableFrom(g, T)

\* a request between two nodes of the graph that no directed path joins
NoDirectedPath ==
    /\ req.src \in Nodes
    /\ req.dst \in Nodes
    /\ req.dst \notin ReachableFrom(adj, {req.src})

\* C5: a start_chain or stop_chain between two nodes that no directed path
\* joins ends in the Unreachable outcome (networkx raises NetworkXNoPath) with
\* no flow directive issued, and the step that ends it so leaves the graph
\* and the flow tables as they were.
C5_UnreachableEndsClean ==
    /\ []((pc # "idle" /\ NoDirectedPath) =>
            (pc = "done" /\ outcome.kind = "NoPath" /\ sent = <<>>))
    /\ [][(outcome'.kind = "NoPath" /\ outcome.kind # "NoPath") =>
            (adj' = adj /\ flows' = flows /\ sent' = <<>>
                /\ dcs' = dcs /\ mnNodes' = mnNodes)]_vars

\* a request between two linked-up nodes of the graph has ended Unreachable
C5_Witness ==
    /\ pc = "done"
    /\ outcome.kind = "NoPath"
    /\ NoDirectedPath
    /\ adj[req.src] # Empty
    /\ \E u \in Nodes : req.dst \in DOMAIN adj[u]

\* C6: when src and dst (two nodes) are joined by a direct link the path is
\* [src, dst], and start_chain and stop_chain issue no flow directive and
\* return the success confirmation, whatever src and dst are.
C6_DirectLinkCompletes ==
    (pc # "idle" /\ req.src # req.dst /\ req.src \in Nodes
        /\ req.dst \in DOMAIN adj[req.src]) =>
        /\ path = <<req.src, req.dst>>
        /\ sent = <<>>
        /\ pc = "done" => outcome.kind = "Completed"

\* a stop_chain between two directly linked compute nodes has completed
C6_Witness ==
    /\ pc = "done"
    /\ req.cmd = "del-flows"
    /\ req.src \in Dockers
    /\ req.dst \in Dockers
    /\ req.src \in Nodes
    /\ req.dst \in DOMAIN adj[req.src]
    /\ outcome.kind = "Completed"

\* an addDatacenter call has just raised for a label that is registered
DuplicateRaised ==
    /\ mres' # mres
    /\ mres'.op = "addDatacenter"
    /\ mres'.err = "DuplicateLabel"

\* C7: addDatacenter with a registered label raises and leaves the registry,
\* the substrate and the graph unchanged; a registered label keeps its
\* datacenter object for ever, and no two labels share an object.
C7_DuplicateLabelRejected ==
    /\ [][/\ \A l \in DOMAIN dcs : l \in DOMAIN dcs' /\ dcs'[l] = dcs[l]
          /\ DuplicateRaised =>
                /\ mres'.arg \in DOMAIN dcs
                /\ dcs' = dcs /\ nextOid' = nextOid
                /\ adj' = adj /\ mnNodes' = mnNodes /\ ports' = ports]_vars
    /\ [](/\ nextOid = Cardinality(DOMAIN dcs)
          /\ \A l \in DOMAIN dcs, k \in DOMAIN dcs : dcs[l].oid = dcs[k].oid => l = k)

\* a duplicate addDatacenter("dc1") has raised
C7_Witness ==
    /\ mres.op = "addDatacenter"
    /\ mres.err = "DuplicateLabel"
    /\ "dc1" \in DOMAIN dcs

C9_ThreeTerminalStates ==
    (pc = "done" /\ req.src \in Nodes /\ req.dst \in Nodes) =>
        /\ outcome.kind \in {"Completed", "Rejected", "NoPath", "NotReached"}
        /\ Len(path) > 0 => iter + 1 <= Len(path) - 1

\* addLink is between its two add_edge calls: the edge node1 -> node2 is in
\* the graph and its reverse edge is not
HalfUpdated ==
    /\ linkPc.st = "mid"
    /\ \E e \in Between(adj, linkPc.v, linkPc.u) : e.attr = Mirrored(linkPc.attr)
    /\ ~\E f \in Between(adj, linkPc.u, linkPc.v) : f.attr = linkPc.attr

\* C10: without serialization the graph violates the mirror invariant
\* exactly while an addLink is between its two add_edge calls, where a chain
\* request can run; whenever no addLink is in progress (as when addLink runs
\* atomically) the mirror invariant holds.
C10_HalfUpdatedOnlyInsideAddLink ==
    /\ linkPc.st = "idle" => Mirror
    /\ linkPc.st = "mid" => (HalfUpdated /\ ~Mirror)

\* a chain request has computed the path [node1, node2] over the first edge
\* of an addLink in progress, the edge node2 -> node1 not being there (no
\* node was ever removed, so it was not there when the path was computed)
C10_Witness ==
    /\ HalfUpdated
    /\ nremoves = 0
    /\ pc # "idle"
    /\ path = <<linkPc.v, linkPc.u>>
    /\ linkPc.v \notin DOMAIN adj[linkPc.u]

\* the step is the substrate tearing the compute node n down
TornDown(n) == n \in mnNodes /\ n \notin mnNodes'

\* the step is a request computing its path
PathComputed == pc = "idle" /\ pc' = "walking"

\* removeDocker updates the graph before it asks the substrate: while the
\* removal is between its two statements the node is out of the graph
\* already, the step in which the substrate tears a compute node down finds
\* it out of the graph, and a torn down node is never a node of the graph
GraphFirst ==
    /\ [](/\ rmPc # None => rmPc \notin Nodes
          /\ gone \cap Nodes = {}
          /\ gone \cap mnNodes = {})
    /\ [][\A n \in Dockers :
            TornDown(n) => (n \notin Nodes /\ n \notin Nodes' /\ n \in gone')]_vars

Created(n) == n \notin mnNodes /\ n \in mnNodes'

\* the step is the call op(n) failing in the substrate
CreationFailed(op, n) == mres' # mres /\ mres' = Raised(op, n, "SubstrateError")

\* C12 as claimed: whatever the options, once addSwitch(name) or
\* addDocker(name) has returned or has failed in the substrate, the name is
\* a node of the graph.
C12_NodeRegisteredWhateverOptions ==
    [][/\ \A l \in Dockers :
            (Created(l) \/ CreationFailed("addDocker", l)) => l \in Nodes'
       /\ \A n \in Switches :
            (Created(n) \/ CreationFailed("addSwitch", n)) => n \in Nodes']_vars

\* C12 amended: so it is for every addDocker, and for every addSwitch whose
\* add_to_graph is true (the default); an addSwitch with add_to_graph false
\* leaves the graph as it is.
C12_NodeRegisteredBeforeSubstrate ==
    [][/\ \A l \in Dockers :
            (Created(l) \/ CreationFailed("addDocker", l)) => l \in Nodes'
       /\ \A n \in Switches, created \in BOOLEAN :
            /\ addSwitch(n, TRUE, created) => n \in Nodes'
            /\ addSwitch(n, FALSE, created) => adj' = adj]_vars

\* an addDocker has failed in the substrate and an addSwitch has not, and
\* both names are nodes of the graph
C12_Witness ==
    /\ mres.op = "addDocker"
    /\ mres.err = "SubstrateError"
    /\ mres.arg \in Nodes \ mnNodes
    /\ \E n \in Switches : n \in Nodes \cap mnNodes

\* position j of the path holds the first intermediate hop that is not a
\* switch
FirstNonSwitchAt(j) ==
    /\ j \in Inner(path)
    /\ ~IsSwitch(path[j])
    /\ \A h \in 2..(j - 1) : IsSwitch(path[h])

\* sent holds one directive cmd for each of the hops path[2] .. path[j], in
\* path order, and nothing else
DirectivesUpTo(j, cmd) ==
    /\ Len(sent) = j - 1
    /\ \A h \in 1..(j - 1) : sent[h].sw = path[h + 1] /\ sent[h].cmd = cmd

LinkCall(e1, e2, id1, id2) == addLink(e1, e2, id1, id2, FALSE, FALSE, TRUE)

\* the step is an addLink that completed
LinkCompleted == nlinks' = nlinks + 1 /\ mres' = NoResult

\* the edges u -> v the step has added
NewEdges(u, v) == Between(adj', u, v) \ Between(adj, u, v)

\* the step has added one edge a -> b and one edge b -> a, and they carry
\* ida as the port id of a's side and idb as the port id of b's side, a
\* value of NoId standing for the port the substrate assigned to the side
RecordsIds(a, ida, b, idb) ==
    LET want(id, port) == IF id # NoId THEN id ELSE port
    IN  /\ Cardinality(NewEdges(a, b)) = 1
        /\ Cardinality(NewEdges(b, a)) = 1
        /\ \A e \in NewEdges(a, b) :
              /\ e.attr.src_port_id = want(ida, e.attr.src_port)
              /\ e.attr.dst_port_id = want(idb, e.attr.dst_port)
        /\ \A e \in NewEdges(b, a) :
              /\ e.attr.src_port_id = want(idb, e.attr.src_port)
              /\ e.attr.dst_port_id = want(ida, e.attr.dst_port)

\* C14 as claimed: for each side of every addLink, whatever the end point
\* is, the port id recorded in the two edges is the id the caller supplied
\* for the side if there is one, and the port the substrate assigned to the
\* side otherwise.
C14_CallerIdWhateverRole ==
    [][LinkCompleted =>
        \A e1 \in EndPoints, e2 \in EndPoints, id1 \in IdChoices, id2 \in IdChoices :
          LinkCall(e1, e2, id1, id2) =>
              RecordsIds(Resolve(e1).name, id1, Resolve(e2).name, id2)]_vars

\* the id of a side that counts: the caller's for a compute end point, none
\* for a switch or a data center
CountedId(e, id) == IF Resolve(e).name \in Dockers THEN id ELSE NoId

\* C14 amended: that holds for a side whose end point is a compute node; for
\* a side whose end point is a switch or a data center (its gateway switch)
\* the port id recorded is the port the substrate assigned, also when the
\* caller supplied an id.
C14_CallerIdOfComputeOnly ==
    [][LinkCompleted =>
        \A e1 \in EndPoints, e2 \in EndPoints, id1 \in IdChoices, id2 \in IdChoices :
          LinkCall(e1, e2, id1, id2) =>
              RecordsIds(Resolve(e1).name, CountedId(e1, id1),
                         Resolve(e2).name, CountedId(e2, id2))]_vars

\* a link between two compute nodes, one side with an id of the caller and
\* the other without, is in the graph next to a link of a switch
C14_Witness ==
    \E e \in EdgesOf(adj), f \in EdgesOf(adj) :
        /\ e.u \in Dockers /\ e.v \in Dockers
        /\ e.attr.src_port_id \in CallerIds
        /\ e.attr.dst_port_id = e.attr.dst_port
        /\ IsSwitch(f.u)
        /\ f.attr.src_port_id = f.attr.src_port

\* C15: stop_chain deletes, at an intermediate switch it visits, every flow
\* that matches the chain's in_port, whichever chain installed it.  When a
\* stop_chain has ended over a path that enters the switch S right after the
\* source, a del-flows directive matching only the in_port of S that faces
\* the source was issued to S, and the flow table of S holds no flow with
\* that in_port any more (also none that another chain sharing the port
\* had installed).
C15_StopDeletesEveryFlowOfInPort ==
    (/\ pc = "done"
     /\ req.cmd = "del-flows"
     /\ Len(path) >= 3
     /\ IsSwitch(path[2])) =>
        \E p \in DstPorts(path[1], path[2]) :
            /\ \E j \in 1..Len(sent) :
                  sent[j] = Directive(path[2], "del-flows", p, NoId)
            /\ ~\E f \in flows : f.sw = path[2] /\ f.in_port = p

\* the nodes of g that at most k directed edges lead to from the nodes in S
RECURSIVE Within(_, _, _)
Within(g, S, k) ==
    IF k = 0 THEN S
    ELSE Within(g, S \cup UNION {DOMAIN g[u] : u \in S}, k - 1)

\* p leads from s to t along directed edges of g, and no walk with fewer
\* edges does
IsShortestPath(g, p, s, t) ==
    /\ Len(p) >= 2
    /\ p[1] = s
    /\ p[Len(p)] = t
    /\ s \in DOMAIN g
    /\ \A j \in 1..(Len(p) - 1) : p[j] \in DOMAIN g /\ p[j + 1] \in DOMAIN g[p[j]]
    /\ t \notin Within(g, {s}, Len(p) - 2)

\* C16: nothing about a chain is cached between requests.  Every start_chain
\* and stop_chain that finds a path holds a shortest path of the graph as it
\* is in the step that computes it (for src = dst the one-node path),
\* whatever earlier requests walked; the path is dropped when the request
\* returns; and a step of a chain request never changes the graph, the
\* data center registry, the substrate's nodes or the address counter.
C16_PathRecomputedNothingCached ==
    /\ [][/\ PathComputed =>
               IF req'.src = req'.dst THEN path' = <<req'.src>>
               ELSE IsShortestPath(adj, path', req'.src, req'.dst)
          /\ (pc # "idle" /\ pc' = "idle") => (path' = <<>> /\ sent' = <<>>)
          /\ chain' # chain =>
               (adj' = adj /\ dcs' = dcs /\ nextIP' = nextIP /\ mnNodes' = mnNodes)]_vars
    /\ [](pc = "idle" => (path = <<>> /\ req = NoReq))

\* a stop_chain walks the direct link between its two end points, added
\* third, while the two links through a switch, over which an earlier
\* start_chain between the end points ran, are still in the graph
C16_Witness ==
    /\ pc = "done"
    /\ req.cmd = "del-flows"
    /\ nlinks = 3
    /\ outcome.kind = "Completed"
    /\ path = <<req.src, req.dst>>
    /\ \E sw \in Nodes :
          /\ IsSwitch(sw)
          /\ sw \in DOMAIN adj[req.src]
          /\ req.dst \in DOMAIN adj[sw]

\* the step removes the node l of the graph with every edge into or out of
\* it, leaves every other node and edge as it is, and has the substrate
\* tear l down
RemovesNode(l) ==
    /\ l \in Nodes
    /\ Nodes' = Nodes \ {l}
    /\ EdgesOf(adj') = {e \in EdgesOf(adj) : e.u # l /\ e.v # l}
    /\ mnNodes' = mnNodes \ {l}

\* the step fails for the name l that is not a node: the graph is left as
\* it is and the substrate is not asked
RemoveFails(l) ==
    /\ l \notin Nodes
    /\ mres' = Raised("removeDocker", l, "NetworkXError")
    /\ adj' = adj
    /\ mnNodes' = mnNodes
    /\ gone' = gone

\* C17: removeDocker(name) for a node of the graph removes the node and
\* every directed edge into or out of it and leaves all other nodes and
\* edges unchanged; for a name that is not a node it fails with the graph's
\* not-found error (NetworkXError), leaves the graph unchanged and does not
\* invoke the substrate removal.
C17_RemoveNodeAndIncidentEdges ==
    [][nremoves' = nremoves + 1 =>
        \E l \in Dockers : RemovesNode(l) \/ RemoveFails(l)]_vars

\* of three links two were at a compute node that was removed, and the two
\* edges of the third are left
C17_Witness ==
    /\ nlinks = 3
    /\ mres = NoResult
    /\ Cardinality(EdgesOf(adj)) = 2
    /\ \E l \in gone : l \notin Nodes /\ l \notin mnNodes

\* C18: addLink given a Datacenter handle or the label of a registered data
\* center records both edges under the name of the data center's gateway
\* switch: no label is a node of the graph, every end of an edge is the name
\* of a node of the substrate, and every link of a data center is at its
\* gateway switch.  So a chain between two compute nodes attached to two
\* linked data centers walks through the two gateway switches: over the path
\* [h1, gateway, gateway, h2] a start_chain programs the two gateways, one
\* directive each, and completes.
C18_DatacenterEndIsGateway ==
    /\ DcLabels \cap Nodes = {}
    /\ \A e \in EdgesOf(adj) : e.u \in AllNames /\ e.v \in AllNames
    /\ (/\ pc = "done"
        /\ req.cmd = "add-flow"
        /\ Len(path) = 4
        /\ path[1] \in Dockers /\ path[4] \in Dockers
        /\ path[2] \in Gateways /\ path[3] \in Gateways) =>
            /\ outcome.kind = "Completed"
            /\ DirectivesUpTo(3, "add-flow")

\* two neighbours on the path are joined by more than one link
CrossesParallelLinks ==
    \E j \in 1..(Len(path) - 1) :
        /\ path[j] \in Nodes
        /\ Cardinality(Between(adj, path[j], path[j + 1])) >= 2

\* C19: parallel links are kept and usable.  The graph holds as many edges
\* u -> v as v -> u, no edge having overwritten another (the keys of the
\* parallel edges are 0 .. k-1); and a start_chain whose path crosses a pair
\* of nodes joined by several links still completes, with one add-flow at
\* each intermediate switch whose in_port and out_port are the dst_port and
\* src_port of edges recorded between the neighbours on the path.
C19_ParallelLinksUsable ==
    /\ \A u \in Nodes : \A v \in DOMAIN adj[u] :
          /\ Cardinality(Between(adj, u, v)) = Cardinality(Between(adj, v, u))
          /\ DOMAIN adj[u][v] = 0..(Cardinality(DOMAIN adj[u][v]) - 1)
    /\ (EndedOverSwitches("add-flow") /\ CrossesParallelLinks) =>
          /\ outcome.kind = "Completed"
          /\ Len(sent) = Len(path) - 2
          /\ \A j \in 1..Len(sent) :
                /\ sent[j].sw = path[j + 1]
                /\ sent[j].in_port \in DstPorts(path[j], path[j + 1])
                /\ sent[j].action \in SrcPorts(path[j + 1], path[j + 2])

\* C20: loop exhaustion never occurs.  A request between two different
\* names for which a shortest path was found ends in an iteration where
\* next_hop is the destination, or is rejected at a hop before, with
\* iterations of the loop to spare; it does not end by reading the path past
\* its end, nor with "destination node not reached".
C20_LoopNeverExhausted ==
    (pc = "done" /\ req.src # req.dst /\ Len(path) >= 2) =>
        /\ outcome.kind \in {"Completed", "Rejected"}
        /\ iter < Len(path)
        /\ outcome.kind \notin {"IndexError", "NotReached"}
====

